---- MODULE Spec2Model ----
(***************************************************************************)
(* A model of the TimedMsg Vue component (src/components/TimedMsg.vue):    *)
(* the pure formatter getDurationData, the component's data fields, its    *)
(* methods updateStrings and preset, its lifecycle hooks, and the browser  *)
(* environment it runs in (wall clock and setTimeout table).               *)
(*                                                                         *)
(* Number representation.  JavaScript numbers hold millisecond epochs and  *)
(* millisecond delays that do not fit TLC's 32-bit integers (one year is   *)
(* 31,557,600,000 ms).  A millisecond quantity v is therefore held as the  *)
(* record [s |-> v \div 1000, ms |-> v % 1000], and quantities in seconds  *)
(* are plain integers.  NaN is one reserved integer that every arithmetic  *)
(* and comparison operator below treats as JavaScript treats NaN.          *)
(***************************************************************************)
EXTENDS Integers, Sequences, FiniteSets, TLC

VARIABLES
  \* props (src/components/TimedMsg.vue:165-230)
  when, before, after, start, end, warnAt, noticeAt,
  \* data() (src/components/TimedMsg.vue:232-319)
  diff, endWord, humanPrefix, dynamicDuration, cutoffDateTime, isPast,
  lastUpdated, oldWhen, startWord, timestamp, timeouts,
  \* environment: wall clock, setTimeout table, component lifecycle phase
  now, timers, phase,
  \* the operation that produced the current state
  lastOp,
  \* arguments and result of a direct call of getDurationData, and the
  \* class computed from that result
  fnNow, fnWhen, fnOut, fnClass, fnDone

props == <<when, before, after, start, end, warnAt, noticeAt>>
data == <<diff, endWord, humanPrefix, dynamicDuration, cutoffDateTime, isPast,
          lastUpdated, oldWhen, startWord, timestamp, timeouts>>
display == <<diff, endWord, humanPrefix, dynamicDuration, isPast, startWord>>
env == <<now, timers, phase>>
fnVars == <<fnNow, fnWhen, fnOut, fnClass, fnDone>>
vars == <<props, data, env, lastOp, fnVars>>

----------------------------------------------------------------------------
(* Bounds *)

\* the largest number of setTimeout() calls in one behaviour
MaxTimers == 4

----------------------------------------------------------------------------
(* JavaScript numbers *)

\* the value of new Date(<invalid>).getTime() and of any arithmetic on it
NaN == -2147483647

\* a millisecond quantity: s * 1000 + ms
Ms(s, ms) == [s |-> s, ms |-> ms]

NaNTime == Ms(NaN, 0)

\* a < b and a > b on numbers in seconds; false when either side is NaN
JsLt(a, b) == a # NaN /\ b # NaN /\ a < b
JsGt(a, b) == a # NaN /\ b # NaN /\ a > b
JsLe(a, b) == a # NaN /\ b # NaN /\ a <= b

\* a < b and a <= b on valid millisecond quantities
TimeLt(a, b) == a.s < b.s \/ (a.s = b.s /\ a.ms < b.ms)
TimeLe(a, b) == a = b \/ TimeLt(a, b)

\* a + d on valid millisecond quantities
TimeAdd(a, d) == Ms(a.s + d.s + ((a.ms + d.ms) \div 1000), (a.ms + d.ms) % 1000)

\* Math.floor((w - n) / 1000)
FloorDiffSeconds(n, w) ==
  IF n.s = NaN \/ w.s = NaN THEN NaN
  ELSE (w.s - n.s) + ((w.ms - n.ms) \div 1000)

\* `${x}` for a number
NumToString(x) == IF x = NaN THEN "NaN" ELSE ToString(x)

----------------------------------------------------------------------------
(* getDurationData *)

multipliers == <<31557600, 2629800, 604800, 86400, 3600, 60>>
units == <<"year", "month", "week", "day", "hour", "minute">>

\* the for loop: the first index a with d > multipliers[a], 0 when the
\* loop runs to its end without a break
RECURSIVE FindUnitAtLeast(_, _)
FindUnitAtLeast(d, a) ==
  IF a > Len(units) THEN 0
  ELSE IF d # NaN /\ d >= multipliers[a] THEN a
  ELSE FindUnitAtLeast(d, a + 1)

RECURSIVE FindUnit(_, _)
FindUnit(d, a) ==
  IF a > Len(units) THEN 0
  ELSE IF JsGt(d, multipliers[a]) THEN a
  ELSE FindUnit(d, a + 1)

\* next after the loop, before the multiple-of-60 adjustment
LoopNextZeroDefault(d, past, a) ==
  IF a = 0 THEN 0
  ELSE IF (d % multipliers[a]) > 0 /\ ~past THEN d % multipliers[a]
  ELSE multipliers[a]

LoopNextIgnorePast(d, past, a) ==
  IF a = 0 THEN 1
  ELSE IF (d % multipliers[a]) > 0 THEN d % multipliers[a]
  ELSE multipliers[a]

LoopNext(d, past, a) ==
  IF a = 0 THEN 1
  ELSE IF (d % multipliers[a]) > 0 /\ ~past THEN d % multipliers[a]
  ELSE multipliers[a]

\* Math.floor(humanVal) after the loop
HumanVal(d, a) ==
  IF d = NaN THEN NaN
  ELSE IF a = 0 THEN d
  ELSE d \div multipliers[a]

UnitName(a) == IF a = 0 THEN "second" ELSE units[a]

PluralAlways(humanVal) == "s"

Plural(humanVal) == IF humanVal # 1 THEN "s" ELSE ""

AdjustNextNever(d, next) == next

AdjustNext(d, next) == IF d # 0 /\ (next % 60) = 0 THEN 1 ELSE next

IsPastNonStrict(d) == d # NaN /\ d <= 0

IsPast(d) == JsLt(d, 0)

PrefixTxtSwapped(past, b, a) == IF past THEN b ELSE a

PrefixTxt(past, b, a) == IF past THEN a ELSE b

\* the startWord of the returned record
StartWordKept(d, past, st) == IF past THEN "" ELSE " " \o st

StartWord(d, past, st) == IF d = 0 THEN "" ELSE IF past THEN "" ELSE " " \o st

getDurationData(n, w, b, a, st, en) ==
  LET d0 == FloorDiffSeconds(n, w)
      past == IsPast(d0)
      d == IF past THEN d0 * (-1) ELSE d0
      idx == FindUnit(d, 1)
      humanVal == HumanVal(d, idx)
      next == AdjustNext(d, LoopNext(d, past, idx))
  IN  [ dynamicDuration |->
          IF d = 0 THEN "now"
          ELSE NumToString(humanVal) \o " " \o UnitName(idx) \o Plural(humanVal),
        diff |-> d,
        endWord |-> IF past THEN " " \o en ELSE "",
        isPast |-> past,
        prefixTxt |-> PrefixTxt(past, b, a),
        startWord |-> StartWord(d, past, st),
        timeout |-> Ms(next, 0) ]

\* the computed property wrapClass, for the stored isPast and diff
WrapClassNoticeFirst(past, d, warn, notice) ==
  IF past THEN "timed-msg timed-msg--expired"
  ELSE IF notice > 0 /\ JsLe(d, notice) THEN "timed-msg timed-msg--notice"
  ELSE IF warn > 0 /\ JsLe(d, warn) THEN "timed-msg timed-msg--warning"
  ELSE "timed-msg"

WrapClassStrict(past, d, warn, notice) ==
  IF past THEN "timed-msg timed-msg--expired"
  ELSE IF warn > 0 /\ JsLt(d, warn) THEN "timed-msg timed-msg--warning"
  ELSE IF notice > 0 /\ JsLt(d, notice) THEN "timed-msg timed-msg--notice"
  ELSE "timed-msg"

WrapClass(past, d, warn, notice) ==
  IF past THEN "timed-msg timed-msg--expired"
  ELSE IF warn > 0 /\ JsLe(d, warn) THEN "timed-msg timed-msg--warning"
  ELSE IF notice > 0 /\ JsLe(d, notice) THEN "timed-msg timed-msg--notice"
  ELSE "timed-msg"

----------------------------------------------------------------------------
(* Inputs *)

\* values of the `when` prop: ISO 8601 strings and one unparsable string
WhenStrings == { "1970-01-01T00:00:45.000Z",
                 "1970-01-01T01:01:01.000Z",
                 "1970-01-01T08:00:00.000Z",
                 "next tuesday-ish" }

\* new Date(w).getTime()
DateGetTime(w) ==
  CASE w = "1970-01-01T00:00:45.000Z" -> Ms(45, 0)
    [] w = "1970-01-01T01:01:01.000Z" -> Ms(3661, 0)
    [] w = "1970-01-01T08:00:00.000Z" -> Ms(28800, 0)
    [] OTHER -> NaNTime

\* new Date(w).toString() === 'Invalid Date'
IsInvalidDate(w) == DateGetTime(w) = NaNTime

\* `${tmp.toLocaleDateString(undefined, options)} at ${tmp.toLocaleTimeString('en-AU')}`
\* in an en-AU runtime whose time zone is UTC
LocaleDateTime(w) ==
  CASE w = "1970-01-01T00:00:45.000Z" -> "Thursday, 1 January 1970 at 12:00:45 am"
    [] w = "1970-01-01T01:01:01.000Z" -> "Thursday, 1 January 1970 at 1:01:01 am"
    [] w = "1970-01-01T08:00:00.000Z" -> "Thursday, 1 January 1970 at 8:00:00 am"
    [] OTHER -> "Invalid Date at Invalid Date"

\* values of the props <<warnAt, noticeAt>> of a mounted component
ThresholdPairs == {<<-1, -1>>, <<3650, 7200>>}

\* values of warnAt and of noticeAt in direct classifications
FnThresholds == {-1, 0, 3600, 7200}

BeforeWords == {"Expires", "Closes"}
AfterWords == {"Expired"}
StartWords == {"in"}
EndWords == {"ago"}

\* readings of Date.now(), in seconds since the epoch
ClockSeconds == {0, 1, 44, 45, 46, 61, 3662, 28845}
ClockValues == {Ms(s, 0) : s \in ClockSeconds}

\* readings of Date.now() in the runs that follow one timer chain to its end
LiveClockSeconds == {0, 46, 3662, 57601}
LiveClockValues == {Ms(s, 0) : s \in LiveClockSeconds}

\* arguments of direct calls of getDurationData
FnNows == {Ms(0, 0), Ms(10, 250)}
FnGapSeconds == {0, 1, 2, 45, 59, 60, 61, 119, 120, 121, 1800, 3599, 3600,
                 3601, 3661, 7199, 7200, 7201, 7300, 28799, 28800, 86400,
                 86401, 90000,
                 604800, 604801, 2629800, 2629801, 31557600, 31557601,
                 34187407}
FnGapMillis == {0, 500, 999}
FnGaps == {Ms(s, m) : s \in FnGapSeconds, m \in FnGapMillis}

----------------------------------------------------------------------------
(* The component *)

Range(q) == {q[i] : i \in DOMAIN q}

\* the timers that setTimeout() armed and that neither fired nor were cleared
Pending == {h \in DOMAIN timers : timers[h].status = "pending"}

\* the result record before any call of getDurationData
NoResult == [ dynamicDuration |-> "", diff |-> 0, endWord |-> "",
              isPast |-> FALSE, prefixTxt |-> "", startWord |-> "",
              timeout |-> Ms(0, 0) ]

FnIdle ==
  /\ fnNow = Ms(0, 0)
  /\ fnWhen = Ms(0, 0)
  /\ fnOut = NoResult
  /\ fnClass = ""
  /\ fnDone = FALSE

\* data() of a component that is created and not yet mounted
DataInit ==
  /\ diff = 0
  /\ endWord = ""
  /\ humanPrefix = "Expires"
  /\ dynamicDuration = ""
  /\ cutoffDateTime = ""
  /\ isPast = FALSE
  /\ lastUpdated = Ms(0, 0)
  /\ oldWhen = ""
  /\ startWord = ""
  /\ timestamp = Ms(0, 0)
  /\ timeouts = <<>>

PropsInit ==
  /\ before \in BeforeWords
  /\ after \in AfterWords
  /\ start \in StartWords
  /\ end \in EndWords

\* the declared defaults of the phrase props
PropsDefault ==
  /\ before = "Expires"
  /\ after = "Expired"
  /\ start = "in"
  /\ end = "ago"

Init ==
  /\ when \in WhenStrings
  /\ PropsDefault
  /\ \E p \in ThresholdPairs : warnAt = p[1] /\ noticeAt = p[2]
  /\ DataInit
  /\ now = Ms(0, 0)
  /\ timers = <<>>
  /\ phase = "created"
  /\ lastOp = "create"
  /\ FnIdle

\* a timer that can no longer fire: the table forgets when it was due
Retire(t, st) == [t EXCEPT !.status = st, !.due = Ms(0, 0), !.delay = Ms(0, 0)]

\* the while loop of updateStrings: clearTimeout() of every handle in the list
ClearNone(tm, tos) == tm

ClearTimeouts(tm, tos) ==
  [h \in DOMAIN tm |->
     IF h \in Range(tos) /\ tm[h].status = "pending"
     THEN Retire(tm[h], "cleared")
     ELSE tm[h]]

\* the condition under which updateStrings arms a timer
ShouldArmBelowHour(d) == JsLt(d, 3600)

ShouldArmAlways(d) == TRUE

ShouldArm(d) == JsLt(d, 28800)

\* updateStrings() run with this.timestamp = ts and the timer table tm
updateStrings(ts, tm) ==
  LET cleared == ClearTimeouts(tm, timeouts)
      tmp == getDurationData(now, ts, before, after, start, end)
  IN  /\ dynamicDuration' = tmp.dynamicDuration
      /\ endWord' = tmp.endWord
      /\ isPast' = tmp.isPast
      /\ humanPrefix' = tmp.prefixTxt
      /\ startWord' = tmp.startWord
      /\ diff' = tmp.diff
      /\ IF ShouldArm(tmp.diff)
         THEN /\ timers' = Append(cleared, [ due |-> TimeAdd(now, tmp.timeout),
                                             delay |-> tmp.timeout,
                                             cutoff |-> ts,
                                             status |-> "pending" ])
              /\ timeouts' = <<Len(cleared) + 1>>
         ELSE /\ timers' = cleared
              /\ timeouts' = <<>>
      /\ lastUpdated' = now

\* the guard of preset
WhenChangedAlways(w) == TRUE

WhenChanged(w) == w # oldWhen

\* preset() run with this.when = w.  new Date(<string>) does not throw, so
\* the catch branch and its return are never taken; the 'Invalid Date'
\* branch logs and falls through to the assignments below it.
preset(w) ==
  IF WhenChanged(w)
  THEN /\ oldWhen' = w
       /\ cutoffDateTime' = LocaleDateTime(w)
       /\ timestamp' = DateGetTime(w)
       /\ updateStrings(DateGetTime(w), timers)
  ELSE UNCHANGED <<data, timers>>

\* setTimeout() can still hand out a handle
CanArm == Len(timers) < MaxTimers

\* beforeMount(): the first preset
BeforeMount ==
  /\ phase = "created"
  /\ CanArm
  /\ preset(when)
  /\ phase' = "mounted"
  /\ lastOp' = "beforeMount"
  /\ UNCHANGED <<props, now, fnVars>>

\* updated(): the owner re-rendered the component with `when` = w
Updated(w) ==
  /\ phase = "mounted"
  /\ CanArm
  /\ when' = w
  /\ preset(w)
  /\ lastOp' = IF w = when THEN "updatedSame" ELSE "updatedChanged"
  /\ UNCHANGED <<before, after, start, end, warnAt, noticeAt, now, phase,
                 fnVars>>

\* the callback of getStringUpdater runs for timer h, at or after its due time
TimerFired(h) ==
  /\ h \in Pending
  /\ TimeLe(timers[h].due, now)
  /\ CanArm
  /\ updateStrings(timestamp, [timers EXCEPT ![h] = Retire(@, "fired")])
  /\ lastOp' = "timer"
  /\ UNCHANGED <<props, cutoffDateTime, oldWhen, timestamp, now, phase, fnVars>>

\* the owning view is torn down; the component declares no hook for it
Unmount ==
  /\ phase \in {"mounted", "unmounted"}
  /\ phase' = "unmounted"
  /\ lastOp' = "unmount"
  /\ UNCHANGED <<props, data, now, timers, fnVars>>

\* the wall clock advances
Tick(t) ==
  /\ TimeLt(now, t)
  /\ now' = t
  /\ lastOp' = "tick"
  /\ UNCHANGED <<props, data, timers, phase, fnVars>>

\* the class the template binds, computed from the stored fields
wrapClass == WrapClass(isPast, diff, warnAt, noticeAt)

Next ==
  \/ BeforeMount
  \/ \E w \in WhenStrings : Updated(w)
  \/ \E h \in DOMAIN timers : TimerFired(h)
  \/ Unmount
  \/ \E t \in ClockValues : Tick(t)

Spec == Init /\ [][Next]_vars

----------------------------------------------------------------------------
(* One presentation left alone: the cut-off string is never changed, the   *)
(* view is never re-rendered or torn down.  The framework mounts the       *)
(* component, time passes, and the event loop runs every callback whose    *)
(* timer is due.                                                           *)

LiveTick == \E t \in LiveClockValues : Tick(t)

LiveTimerFired == \E h \in 1..MaxTimers : h \in DOMAIN timers /\ TimerFired(h)

LiveNext ==
  \/ BeforeMount
  \/ LiveTimerFired
  \/ LiveTick

LiveSpec ==
  /\ Init
  /\ [][LiveNext]_vars
  /\ WF_vars(BeforeMount)
  /\ WF_vars(LiveTimerFired)
  /\ WF_vars(LiveTick)

----------------------------------------------------------------------------
(* Direct calls of getDurationData *)

FnInit ==
  /\ when \in {"1970-01-01T00:00:45.000Z"}
  /\ PropsInit
  /\ warnAt \in FnThresholds
  /\ noticeAt \in FnThresholds
  /\ DataInit
  /\ now = Ms(0, 0)
  /\ timers = <<>>
  /\ phase = "created"
  /\ lastOp = "create"
  /\ fnNow \in FnNows \cup {TimeAdd(n, g) : n \in FnNows, g \in FnGaps}
  /\ fnWhen \in FnNows \cup {TimeAdd(n, g) : n \in FnNows, g \in FnGaps}
  /\ fnNow \in FnNows \/ fnWhen \in FnNows
  /\ fnOut = NoResult
  /\ fnClass = ""
  /\ fnDone = FALSE

Compute ==
  /\ ~fnDone
  /\ fnOut' = getDurationData(fnNow, fnWhen, before, after, start, end)
  /\ fnClass' = WrapClass(fnOut'.isPast, fnOut'.diff, warnAt, noticeAt)
  /\ fnDone' = TRUE
  /\ UNCHANGED <<props, data, env, lastOp, fnNow, fnWhen>>

FnNext == Compute

FnSpec == FnInit /\ [][FnNext]_vars

TypeOK ==
  /\ when \in WhenStrings
  /\ phase \in {"created", "mounted", "unmounted"}
  /\ Len(timers) <= MaxTimers
  /\ fnDone \in BOOLEAN

----------------------------------------------------------------------------
(* Properties of the component, checked under Spec *)

\* the stored result is the formatter's result for (lastUpdated, timestamp)
StoredResultFrom(ts) ==
  LET r == getDurationData(lastUpdated, ts, before, after, start, end)
  IN  /\ dynamicDuration = r.dynamicDuration
      /\ diff = r.diff
      /\ isPast = r.isPast
      /\ humanPrefix = r.prefixTxt
      /\ startWord = r.startWord
      /\ endWord = r.endWord

PresetRan == lastOp \in {"beforeMount", "updatedSame", "updatedChanged"}

\* C1: a preset whose cut-off string differs from the stored one and does not
\* parse leaves the cut-off timestamp, the displayed fields, the stored gap
\* and the set of pending timers as they were.
C1_ParseFailureKeepsState ==
  [][ (phase = "mounted" /\ PresetRan' /\ when' # oldWhen /\ IsInvalidDate(when'))
        => (UNCHANGED <<timestamp, display>> /\ Pending' = Pending) ]_vars

\* C2: in every state after teardown of the owning view no timer is pending.
C2_TeardownCancelsTimers == (phase = "unmounted") => (Pending = {})

\* C3: last cut-off wins: every pending timer was armed for the cut-off
\* timestamp now stored, and once a cut-off has been presented the stored
\* result is the one computed from that timestamp.
C3_LastCutoffWins ==
  /\ \A h \in Pending : timers[h].cutoff = timestamp
  /\ (oldWhen # "") => StoredResultFrom(timestamp)

\* a valid cut-off B replaced A while A's timer was pending: A's timer is
\* cleared and the pending one is B's
C3_Witness ==
  /\ lastOp = "updatedChanged"
  /\ ~IsInvalidDate(when)
  /\ \E h \in DOMAIN timers :
       timers[h].status = "cleared" /\ timers[h].cutoff # timestamp
  /\ \E h \in Pending : timers[h].cutoff = timestamp

\* C4: a preset with the cut-off string already stored changes no data field
\* and neither clears nor arms a timer.
C4_SameCutoffIsNoOp ==
  [][ (PresetRan' /\ when' = oldWhen) => UNCHANGED <<data, timers>> ]_vars

\* preset ran with the stored string while a timer was pending
C4_Witness ==
  /\ lastOp = "updatedSame"
  /\ when = oldWhen
  /\ Pending # {}
  /\ timeouts = <<CHOOSE h \in Pending : TRUE>>

\* C5: at most one timer is pending, and it is the one in the handle list.
C5_AtMostOnePending ==
  /\ Cardinality(Pending) <= 1
  /\ Pending \subseteq Range(timeouts)

\* one timer is pending after earlier ones fired and were cleared
C5_Witness ==
  /\ Cardinality(Pending) = 1
  /\ \E h \in DOMAIN timers : timers[h].status = "fired"
  /\ \E h \in DOMAIN timers : timers[h].status = "cleared"

RefreshRan == lastOp \in {"beforeMount", "updatedChanged", "timer"}

\* C6: right after a refresh exactly one timer is pending, armed with the
\* formatter's delay, if the gap just computed is below 28,800 s; otherwise
\* no timer is pending.
C6_ArmedIffBelowCeiling ==
  RefreshRan =>
    LET r == getDurationData(lastUpdated, timestamp, before, after, start, end)
    IN  IF diff # NaN /\ diff < 28800
        THEN /\ Cardinality(Pending) = 1
             /\ \A h \in Pending :
                  /\ timers[h].delay = r.timeout
                  /\ timers[h].due = TimeAdd(lastUpdated, r.timeout)
        ELSE Pending = {}

\* the refresh that ends a chain: a timer fired at a past gap of 28,800 s or
\* more and nothing was armed
C6_Witness ==
  /\ lastOp = "timer"
  /\ isPast
  /\ diff >= 28800
  /\ Pending = {}
  /\ \E h \in DOMAIN timers : timers[h].status = "fired"

----------------------------------------------------------------------------
(* Properties of getDurationData, checked under FnSpec *)

\* the absolute gap in whole seconds between the two arguments
Gap ==
  LET d == FloorDiffSeconds(fnNow, fnWhen)
  IN  IF d < 0 THEN 0 - d ELSE d

\* the unit lengths of the specification, in seconds
Threshold(u) ==
  CASE u = "year" -> 31557600
    [] u = "month" -> 2629800
    [] u = "week" -> 604800
    [] u = "day" -> 86400
    [] u = "hour" -> 3600
    [] u = "minute" -> 60
    [] u = "second" -> 1

\* the unit of largest length among us that g strictly exceeds, else fallback
LargestExceeded(g, us, fallback) ==
  LET ex == {u \in us : g > Threshold(u)}
  IN  IF ex = {} THEN fallback
      ELSE CHOOSE u \in ex : \A v \in ex : Threshold(v) <= Threshold(u)

\* "<magnitude> <unit>" with or without the plural "s"
Phrases(g, u) ==
  { ToString(g \div Threshold(u)) \o " " \o u,
    ToString(g \div Threshold(u)) \o " " \o u \o "s" }

\* the unit the formatter reports for a gap of g seconds
ReportedUnit(g) ==
  LargestExceeded(g, {"year", "month", "week", "day", "hour", "minute"}, "second")

\* C7 as stated: for every gap >= 0 ms, the call (now, now + gap) is not past
\* and the symmetric call (now + gap, now) is past.
C7_Original ==
  fnDone => /\ TimeLe(fnNow, fnWhen) => ~fnOut.isPast
            /\ TimeLe(fnWhen, fnNow) => fnOut.isPast

\* C7: for every gap >= 0 ms the call (now, now + gap) is not past; for every
\* gap > 0 ms the symmetric call (now + gap, now) is past.
C7_IsPast ==
  fnDone => /\ TimeLe(fnNow, fnWhen) => ~fnOut.isPast
            /\ TimeLt(fnWhen, fnNow) => fnOut.isPast

\* a symmetric call whose gap is below one second
C7_Witness ==
  /\ fnDone
  /\ fnWhen.s = fnNow.s
  /\ fnWhen.ms < fnNow.ms
  /\ fnOut.isPast

\* C8 as stated: the unit is the largest of year..hour that the gap strictly
\* exceeds, and minute with magnitude floor(gap / 60) when it exceeds none.
C8_Original ==
  (fnDone /\ Gap # 0) =>
    fnOut.dynamicDuration \in
      Phrases(Gap, LargestExceeded(Gap, {"year", "month", "week", "day", "hour"},
                                   "minute"))

\* C8: the unit is the largest of year..minute that the gap strictly exceeds,
\* and second with magnitude = gap when it exceeds none (gap <= 60).
C8_UnitSelection ==
  (fnDone /\ Gap # 0) => fnOut.dynamicDuration \in Phrases(Gap, ReportedUnit(Gap))

\* a 45-second gap
C8_Witness ==
  /\ fnDone
  /\ Gap = 45
  /\ fnOut.dynamicDuration = "45 seconds"

\* C9: for a non-zero gap the text is "<magnitude> <unit>", magnitude =
\* floor(gap / unit length) >= 0, with "s" appended exactly when magnitude # 1;
\* 3661 s gives "1 hour" and 7200 s gives "2 hours".
C9_RenderedText ==
  (fnDone /\ Gap # 0) =>
    LET u == ReportedUnit(Gap)
        m == Gap \div Threshold(u)
    IN  /\ m >= 0
        /\ fnOut.dynamicDuration =
             ToString(m) \o " " \o u \o (IF m # 1 THEN "s" ELSE "")
        /\ (Gap = 3661) => fnOut.dynamicDuration = "1 hour"
        /\ (Gap = 7200) => fnOut.dynamicDuration = "2 hours"

\* a gap of 3661 s
C9_Witness ==
  /\ fnDone
  /\ Gap = 3661
  /\ fnOut.dynamicDuration = "1 hour"

\* C10: past: direction phrase = after, trailing connector populated,
\* leading connector empty (90,000 s past: "1 day"); future by a second or
\* more: direction phrase = before, leading connector populated, trailing
\* connector empty; never both connectors populated.
C10_DirectionPhrasing ==
  fnDone =>
    /\ TimeLt(fnWhen, fnNow) =>
         /\ fnOut.isPast
         /\ fnOut.prefixTxt = after
         /\ fnOut.endWord = " " \o end
         /\ fnOut.startWord = ""
    /\ (TimeLe(fnNow, fnWhen) /\ Gap # 0) =>
         /\ ~fnOut.isPast
         /\ fnOut.prefixTxt = before
         /\ fnOut.startWord = " " \o start
         /\ fnOut.endWord = ""
    /\ (TimeLt(fnWhen, fnNow) /\ Gap = 90000) => fnOut.dynamicDuration = "1 day"
    /\ ~(fnOut.startWord # "" /\ fnOut.endWord # "")

\* 90,000 s in the past
C10_Witness ==
  /\ fnDone
  /\ TimeLt(fnWhen, fnNow)
  /\ Gap = 90000
  /\ fnOut.isPast
  /\ fnOut.prefixTxt = after
  /\ fnOut.endWord = " ago"

\* the gap in whole seconds is zero
ZeroGap == FloorDiffSeconds(fnNow, fnWhen) = 0

\* the cut-off argument lies before the clock argument
CutoffPassed == TimeLt(fnWhen, fnNow)

\* C11: at a gap of zero seconds the text is "now", both connectors are
\* empty and the delay is 1000 ms.
C11_ZeroGap ==
  (fnDone /\ ZeroGap) =>
    /\ fnOut.dynamicDuration = "now"
    /\ fnOut.startWord = ""
    /\ fnOut.endWord = ""
    /\ fnOut.timeout = Ms(1, 0)

\* compute(now, now)
C11_Witness ==
  /\ fnDone
  /\ fnNow = fnWhen
  /\ fnOut.dynamicDuration = "now"
  /\ fnOut.startWord = ""

\* C12: the class is expired if isPast; else warning if warnAt > 0 and
\* gap <= warnAt; else notice if noticeAt > 0 and gap <= noticeAt; else
\* normal.  Warning wins over notice, and a non-positive threshold never
\* produces its class.
C12_Urgency ==
  fnDone =>
    LET warn == warnAt > 0 /\ fnOut.diff <= warnAt
        notice == noticeAt > 0 /\ fnOut.diff <= noticeAt
    IN  /\ (fnClass = "timed-msg timed-msg--expired") <=> fnOut.isPast
        /\ (fnClass = "timed-msg timed-msg--warning") <=> (~fnOut.isPast /\ warn)
        /\ (fnClass = "timed-msg timed-msg--notice")
             <=> (~fnOut.isPast /\ ~warn /\ notice)
        /\ (fnClass = "timed-msg") <=> (~fnOut.isPast /\ ~warn /\ ~notice)
        /\ (~fnOut.isPast /\ warnAt = 3600 /\ noticeAt = 7200 /\ fnOut.diff = 1800)
             => fnClass = "timed-msg timed-msg--warning"
        /\ (warnAt <= 0) => fnClass # "timed-msg timed-msg--warning"
        /\ (noticeAt <= 0) => fnClass # "timed-msg timed-msg--notice"

\* both thresholds apply and warning wins
C12_Witness ==
  /\ fnDone
  /\ warnAt = 3600
  /\ noticeAt = 7200
  /\ ~fnOut.isPast
  /\ fnOut.diff = 1800
  /\ fnClass = "timed-msg timed-msg--warning"

\* the delay in seconds of the next-tick rule for threshold t
RuleDelay(g, t, future) ==
  LET raw == IF future /\ (g % t) > 0 THEN g % t ELSE t
  IN  IF raw % 60 = 0 THEN 1 ELSE raw

\* C14 as stated: the rule applies to every gap, with T = 60 when the gap
\* exceeds no threshold down to hour (45 s in the future gives 45,000 ms).
C14_Original ==
  fnDone =>
    fnOut.timeout =
      Ms(RuleDelay(Gap,
                   Threshold(LargestExceeded(Gap, {"year", "month", "week",
                                                   "day", "hour"}, "minute")),
                   ~CutoffPassed), 0)

\* C14: the rule applies to every gap above 60 s, with T the length of the
\* unit reported; for a gap of 60 s or less the delay is 1000 ms.
C14_NextDelay ==
  fnDone =>
    fnOut.timeout =
      IF Gap <= 60 THEN Ms(1, 0)
      ELSE Ms(RuleDelay(Gap, Threshold(ReportedUnit(Gap)), ~CutoffPassed), 0)

\* a gap of 45 s in the future
C14_Witness ==
  /\ fnDone
  /\ ~CutoffPassed
  /\ Gap = 45
  /\ fnOut.timeout = Ms(1, 0)

\* C15: the delay is a whole number of seconds, at least one.
C15_DelayFloor ==
  fnDone => (fnOut.timeout.ms = 0 /\ fnOut.timeout.s >= 1)

\* the remainder rule gave a multiple of 60 and the delay is the floor
C15_Witness ==
  /\ fnDone
  /\ ~CutoffPassed
  /\ Gap = 7200
  /\ fnOut.timeout = Ms(1, 0)

\* C16: for a non-zero gap below 28,800 s, at every whole second before the
\* delay has elapsed the formatter returns the same text, direction phrase
\* and connectors.
C16_NoStaleness ==
  (fnDone /\ Gap > 0 /\ Gap < 28800) =>
    \A k \in 1..(fnOut.timeout.s - 1) :
      LET r == getDurationData(TimeAdd(fnNow, Ms(k, 0)), fnWhen,
                               before, after, start, end)
      IN  /\ r.dynamicDuration = fnOut.dynamicDuration
          /\ r.prefixTxt = fnOut.prefixTxt
          /\ r.startWord = fnOut.startWord
          /\ r.endWord = fnOut.endWord

\* a gap one second below two hours: "1 hour" for the next 3599 s
C16_Witness ==
  /\ fnDone
  /\ ~CutoffPassed
  /\ Gap = 7199
  /\ fnOut.dynamicDuration = "1 hour"
  /\ fnOut.timeout = Ms(3599, 0)

\* C18: when the cut-off is in the past the delay is exactly 1000 ms.
C18_PastDelay ==
  (fnDone /\ CutoffPassed) => fnOut.timeout = Ms(1, 0)

\* a cut-off more than a year in the past
C18_Witness ==
  /\ fnDone
  /\ CutoffPassed
  /\ Gap > 31557600
  /\ fnOut.isPast
  /\ fnOut.timeout = Ms(1, 0)

----------------------------------------------------------------------------
(* Properties of the timer chain *)

\* the gap in whole seconds between the wall clock and the stored cut-off
TrueGap == FloorDiffSeconds(now, timestamp)

\* a timer is pending for a valid cut-off and is not yet due
ChainOnTime ==
  /\ phase = "mounted"
  /\ timestamp # NaNTime
  /\ Pending # {}
  /\ \A h \in Pending : TimeLt(now, timers[h].due)

\* C17 as stated: while a chain is running and the cut-off has not passed,
\* a true gap more than 1 s below warnAt (noticeAt) shows as warning (as
\* notice or warning).
C17_Original ==
  (ChainOnTime /\ TrueGap >= 0) =>
    /\ (warnAt > 0 /\ TrueGap < warnAt - 1)
         => wrapClass = "timed-msg timed-msg--warning"
    /\ (noticeAt > 0 /\ TrueGap < noticeAt - 1)
         => wrapClass \in {"timed-msg timed-msg--warning",
                           "timed-msg timed-msg--notice"}

\* C17: right after every refresh the class is the one of the true gap:
\* expired once the cut-off has passed, warning when warnAt > 0 and the gap
\* is at most warnAt, notice or warning when noticeAt > 0 and the gap is at
\* most noticeAt.
C17_ClassAtRefresh ==
  (RefreshRan /\ timestamp # NaNTime) =>
    /\ (TrueGap < 0) => wrapClass = "timed-msg timed-msg--expired"
    /\ (TrueGap >= 0 /\ warnAt > 0 /\ TrueGap <= warnAt)
         => wrapClass = "timed-msg timed-msg--warning"
    /\ (TrueGap >= 0 /\ noticeAt > 0 /\ TrueGap <= noticeAt)
         => wrapClass \in {"timed-msg timed-msg--warning",
                           "timed-msg timed-msg--notice"}

\* a timer fired on time at a gap of one hour and the class became warning
C17_Witness ==
  /\ lastOp = "timer"
  /\ warnAt = 3650
  /\ TrueGap = 3600
  /\ diff = 3600
  /\ wrapClass = "timed-msg timed-msg--warning"

\* C13 as stated: every valid cut-off is eventually displayed as passed.
C13_Original ==
  (~IsInvalidDate(when)) => <>(isPast /\ humanPrefix = after)

\* C13: a cut-off presented at a gap below 28,800 s is eventually displayed
\* as passed.
C13_LiveBelowCeiling ==
  (phase = "mounted" /\ diff # NaN /\ diff < 28800)
    ~> (isPast /\ humanPrefix = after)

\* a timer armed before the cut-off fired after it
C13_Witness ==
  /\ lastOp = "timer"
  /\ ~IsInvalidDate(when)
  /\ isPast
  /\ humanPrefix = after
  /\ diff < 28800

\* C19: eventually no timer is pending, for good; and once none is pending
\* nothing refreshes the stored result.
C19_ChainTerminates ==
  /\ <>[](phase = "mounted" /\ Pending = {})
  /\ [][(phase = "mounted" /\ Pending = {})
          => UNCHANGED <<display, lastUpdated, timers>>]_vars

\* every timer of the chain has fired and the last refresh armed none
C19_Witness ==
  /\ phase = "mounted"
  /\ ~IsInvalidDate(when)
  /\ Len(timers) >= 2
  /\ \A h \in DOMAIN timers : timers[h].status = "fired"
  /\ diff >= 28800

====
